---- MODULE Spec2Model ----
(***************************************************************************)
(* Model of the Person / Address / Tuition / Scholarship API of main.py.   *)
(*                                                                         *)
(* Encoding of Python values.  A value of a field that pydantic declares   *)
(* over an Optional type, or that is read from a query parameter, is a     *)
(* tuple: None is <<>> and the value v is <<v>>.  A str that the code only *)
(* compares is a TLA+ string; sponsor_organization, which the code lowers  *)
(* and searches, is a sequence of one-character strings.  A Decimal with   *)
(* two places is its number of cents.  A date is <<year, month, day>>.     *)
(* A datetime is a clock reading.                                          *)
(* A dict is the sequence of its <<key, value>> items in insertion order.  *)
(***************************************************************************)
EXTENDS Integers, Sequences, FiniteSets, TLC

\* persons, addresses, tuitions, scholarships: the four in-memory stores.
\* now: the reading of the clock (datetime.now), which does not go back.
\* nextId: the identifiers uuid4 has given out are 1..nextId-1; uuid4 never
\*   returns the same identifier twice.
\* deleted: history of the <<kind, id>> a DELETE has removed.
\* resp: the request being answered and its response: the operation, the
\*   kind of record, the identifier addressed, the payload or query, the
\*   HTTP status and the body; NoResponse between requests.
\* inflight: for each worker thread, the request it is running and how far
\*   it has got; used when handlers run concurrently (SpecConc).
VARIABLES persons, addresses, tuitions, scholarships, now, nextId, deleted, resp,
          inflight

vars == <<persons, addresses, tuitions, scholarships, now, nextId, deleted, resp,
          inflight>>

stores == <<persons, addresses, tuitions, scholarships>>

\* Bounds of the model: the last clock reading, and how many records are
\* ever created (over the four stores together), and the worker threads
\* that run handlers at the same time.
MaxClock == 2
MaxRecords == 2
MaxThreads == 2

Threads == 1..MaxThreads

Ids == 1..MaxRecords

None == <<>>
Some(v) == <<v>>

----------------------------------------------------------------------------
\* Python dict, as the sequence of its items.

Keys(d) == {d[i][1] : i \in 1..Len(d)}

Has(d, k) == k \in Keys(d)

Idx(d, k) == CHOOSE i \in 1..Len(d) : d[i][1] = k

Get(d, k) == d[Idx(d, k)][2]

Put(d, k, v) ==
  IF Has(d, k) THEN [d EXCEPT ![Idx(d, k)] = <<k, v>>] ELSE Append(d, <<k, v>>)

\* del d[k] that removes nothing
Del_nothing(d, k) == d

Del(d, k) == SelectSeq(d, LAMBDA e : e[1] # k)

Values(d) == [i \in 1..Len(d) |-> d[i][2]]

\* stored.update(other) on dicts keyed by field name
dict_update(stored, other) ==
  [f \in (DOMAIN stored) \cup (DOMAIN other) |->
     IF f \in DOMAIN other THEN other[f] ELSE stored[f]]

\* model.model_dump(): every field of the object
model_dump(obj) == obj

\* An Update object: every declared field (None unless given) and the set of
\* fields the request body set explicitly.
UpdateObject(fields, raw) ==
  [data |-> [f \in fields |-> IF f \in DOMAIN raw THEN raw[f] ELSE None],
   model_fields_set |-> (DOMAIN raw) \cap fields]

\* The dump with exclude_none=True in place of exclude_unset=True: a field
\* given as null is dropped like a field left out.
model_dump_exclude_none(update) ==
  [f \in {g \in update.model_fields_set : update.data[g] # None} |-> update.data[f]]

\* update.model_dump(exclude_unset=True)
model_dump_exclude_unset(update) ==
  [f \in update.model_fields_set |-> update.data[f]]

\* PATCH: stored = record.model_dump(); stored.update(update.model_dump(exclude_unset=True))
update_stored(record, update) ==
  dict_update(model_dump(record), model_dump_exclude_unset(update))

\* The PUT data without the line that writes the original's id over it.
replace_data_no_id(original, payload, t) ==
  dict_update(model_dump(payload),
              [created_at |-> original.created_at, updated_at |-> t])

\* The PUT data without the line that writes the original's created_at
\* over it.
replace_data_no_created_at(original, payload, t) ==
  dict_update(model_dump(payload), [id |-> original.id, updated_at |-> t])

\* PUT: data = payload.model_dump(), then the original's id and created_at
\* and the current time as updated_at are written over it.
replace_data(original, payload, t) ==
  dict_update(model_dump(payload),
              [id |-> original.id, created_at |-> original.created_at, updated_at |-> t])

MetaFields == {"id", "created_at", "updated_at"}

\* The Read model with the two timestamp defaults taken in the other order.
ReadObject_swapped(fields, data, uid, c, u) ==
  [f \in fields \cup MetaFields |->
     IF f \in DOMAIN data THEN data[f]
     ELSE CASE f = "id" -> uid
            [] f = "created_at" -> u
            [] f = "updated_at" -> c]

\* A Read model built from keyword arguments: the given values, and the
\* default factories (uuid4, now, now) for id, created_at and updated_at
\* when they are not given.
ReadObject(fields, data, uid, c, u) ==
  [f \in fields \cup MetaFields |->
     IF f \in DOMAIN data THEN data[f]
     ELSE CASE f = "id" -> uid
            [] f = "created_at" -> c
            [] f = "updated_at" -> u]

NoResponse ==
  [op |-> "none", kind |-> "none", id |-> 0, payload |-> <<>>, status |-> 0, body |-> <<>>]

\* No request is being handled: requests are handled one at a time, each
\* to its response.
Idle == resp = NoResponse

\* A worker thread that runs no request.
NoRequest == [op |-> "none", id |-> 0, payload |-> <<>>, pc |-> "idle", local |-> <<>>]

\* The first n worker threads, none of them running a request.
RECURSIVE FreeThreads(_)
FreeThreads(n) == IF n = 0 THEN <<>> ELSE Append(FreeThreads(n - 1), NoRequest)

\* The record stores are empty when the process starts.
Init ==
  /\ persons = <<>>
  /\ addresses = <<>>
  /\ tuitions = <<>>
  /\ scholarships = <<>>
  /\ now = 0
  /\ nextId = 1
  /\ deleted = {}
  /\ resp = NoResponse
  /\ inflight = FreeThreads(MaxThreads)

\* Records created so far, over the four stores (deleted ones included).
Created == (nextId - 1) + Len(addresses)

\* The clock advances between requests.
Tick ==
  /\ Idle
  /\ UNCHANGED inflight
  /\ now < MaxClock
  /\ now' = now + 1
  /\ UNCHANGED <<stores, nextId, deleted, resp>>

\* The response of the handler is sent to the client.
send_response ==
  /\ ~Idle
  /\ UNCHANGED inflight
  /\ resp' = NoResponse
  /\ UNCHANGED <<stores, now, nextId, deleted>>

Response(op, kind, id, payload, status, body) ==
  [op |-> op, kind |-> kind, id |-> id, payload |-> payload,
   status |-> status, body |-> body]

----------------------------------------------------------------------------
\* Tuition

TuitionFields ==
  {"student_uni", "tuition_type", "semester", "year", "amount", "due_date"}

TuitionType == {"tuition", "library_fee", "gym_fee"}

Semester == {"Fall", "Spring", "Summer"}

\* Request bodies of POST and PUT /tuitions that pass TuitionCreate.
TuitionCreateInputs ==
  << [student_uni |-> Some("vv2418"), tuition_type |-> Some("tuition"),
                 semester |-> Some("Fall"), year |-> Some(2024),
                 amount |-> Some(2500000), due_date |-> Some(<<2024, 8, 15>>)],
     [student_uni |-> Some("xy123"), tuition_type |-> Some("gym_fee"),
                 semester |-> Some("Spring"), year |-> Some(2024),
                 amount |-> Some(50000), due_date |-> Some(<<2024, 1, 20>>)] >>

\* Request bodies of PATCH /tuitions/{id} that pass TuitionUpdate: every
\* field is Optional, so a body may leave a field out or give it as null.
TuitionUpdateInputs ==
  << [f \in {} |-> None],
     [amount |-> Some(0)],
     [semester |-> Some("Spring"), year |-> Some(0)],
     [student_uni |-> None] >>

\* TuitionBase with every field declared Optional: a field must be given
\* but may be null.
TuitionValid_nullable(data) ==
  \A f \in TuitionFields : f \in DOMAIN data

\* TuitionBase declares every field required and of a non-Optional type.
TuitionValid(data) ==
  /\ \A f \in TuitionFields : f \in DOMAIN data /\ data[f] # None
  /\ data.tuition_type[1] \in TuitionType
  /\ data.semester[1] \in Semester

TuitionRead(data, uid, c, u) == ReadObject(TuitionFields, data, uid, c, u)

create_tuition(tuition) ==
  \E d \in 0..1 :
    /\ Idle
    /\ UNCHANGED inflight
    /\ Created < MaxRecords
    /\ now + d <= MaxClock
    /\ LET tuition_read == TuitionRead(model_dump(tuition), nextId, now, now + d)
       IN /\ tuitions' = Put(tuitions, tuition_read.id, tuition_read)
          /\ resp' = Response("create", "tuition", 0, tuition, 201, tuition_read)
    /\ now' = now + d
    /\ nextId' = nextId + 1
    /\ UNCHANGED <<persons, addresses, scholarships, deleted>>

get_tuition(tuition_id) ==
    /\ Idle
    /\ UNCHANGED inflight
    /\ IF ~Has(tuitions, tuition_id)
       THEN resp' = Response("get", "tuition", tuition_id, <<>>, 404, "Tuition record not found")
       ELSE resp' = Response("get", "tuition", tuition_id, <<>>, 200, Get(tuitions, tuition_id))
    /\ UNCHANGED <<stores, now, nextId, deleted>>

update_tuition(tuition_id, raw) ==
    /\ Idle
    /\ UNCHANGED inflight
    /\ IF ~Has(tuitions, tuition_id)
       THEN /\ resp' = Response("update", "tuition", tuition_id, raw, 404, "Tuition record not found")
            /\ UNCHANGED tuitions
       ELSE LET update == UpdateObject(TuitionFields, raw)
                stored == update_stored(Get(tuitions, tuition_id), update)
            IN IF TuitionValid(stored)
               THEN /\ tuitions' = Put(tuitions, tuition_id, TuitionRead(stored, nextId, now, now))
                    /\ resp' = Response("update", "tuition", tuition_id, raw, 200,
                                        Get(tuitions', tuition_id))
               ELSE /\ resp' = Response("update", "tuition", tuition_id, raw, 500, "ValidationError")
                    /\ UNCHANGED tuitions
    /\ UNCHANGED <<persons, addresses, scholarships, now, nextId, deleted>>

replace_tuition(tuition_id, tuition) ==
    /\ Idle
    /\ UNCHANGED inflight
    /\ IF ~Has(tuitions, tuition_id)
       THEN /\ resp' = Response("replace", "tuition", tuition_id, tuition, 404, "Tuition record not found")
            /\ UNCHANGED tuitions
       ELSE LET original == Get(tuitions, tuition_id)
                tuition_data == replace_data(original, tuition, now)
            IN /\ tuitions' = Put(tuitions, tuition_id, TuitionRead(tuition_data, nextId, now, now))
               /\ resp' = Response("replace", "tuition", tuition_id, tuition, 200,
                                   Get(tuitions', tuition_id))
    /\ UNCHANGED <<persons, addresses, scholarships, now, nextId, deleted>>

delete_tuition(tuition_id) ==
    /\ Idle
    /\ UNCHANGED inflight
    /\ IF ~Has(tuitions, tuition_id)
       THEN /\ resp' = Response("delete", "tuition", tuition_id, <<>>, 404, "Tuition record not found")
            /\ UNCHANGED <<tuitions, deleted>>
       ELSE /\ tuitions' = Del(tuitions, tuition_id)
            /\ deleted' = deleted \cup {<<"tuition", tuition_id>>}
            /\ resp' = Response("delete", "tuition", tuition_id, <<>>, 200,
                                "Tuition record deleted successfully")
    /\ UNCHANGED <<persons, addresses, scholarships, now, nextId>>

\* The filters of list_tuitions with the last one applied to the whole
\* store instead of the result so far.
filter_tuitions_last_wins(r0, q) ==
  LET r1 == IF q.student_uni # None
            THEN SelectSeq(r0, LAMBDA t : t.student_uni = q.student_uni) ELSE r0
      r2 == IF q.tuition_type # None
            THEN SelectSeq(r1, LAMBDA t : t.tuition_type = q.tuition_type) ELSE r1
      r3 == IF q.semester # None
            THEN SelectSeq(r2, LAMBDA t : t.semester = q.semester) ELSE r2
      r4 == IF q.year # None
            THEN SelectSeq(r0, LAMBDA t : t.year = q.year) ELSE r3
  IN r4

filter_tuitions(r0, q) ==
  LET r1 == IF q.student_uni # None
            THEN SelectSeq(r0, LAMBDA t : t.student_uni = q.student_uni) ELSE r0
      r2 == IF q.tuition_type # None
            THEN SelectSeq(r1, LAMBDA t : t.tuition_type = q.tuition_type) ELSE r1
      r3 == IF q.semester # None
            THEN SelectSeq(r2, LAMBDA t : t.semester = q.semester) ELSE r2
      r4 == IF q.year # None
            THEN SelectSeq(r3, LAMBDA t : t.year = q.year) ELSE r3
  IN r4

list_tuitions(q) ==
    /\ Idle
    /\ UNCHANGED inflight
    /\ resp' = Response("list", "tuition", 0, q, 200, filter_tuitions(Values(tuitions), q))
    /\ UNCHANGED <<stores, now, nextId, deleted>>

\* Query strings of GET /tuitions: a parameter left out is None.
TuitionQueries ==
  << [student_uni |-> None, tuition_type |-> None, semester |-> None, year |-> None],
     [student_uni |-> Some("vv2418"), tuition_type |-> None, semester |-> None, year |-> None],
     [student_uni |-> None, tuition_type |-> None, semester |-> Some("Spring"), year |-> Some(2024)],
     [student_uni |-> None, tuition_type |-> Some("gym_fee"), semester |-> None, year |-> Some(0)],
     [student_uni |-> Some(""), tuition_type |-> None, semester |-> None, year |-> None] >>

----------------------------------------------------------------------------
\* Scholarship

ScholarshipFields ==
  {"name", "scholarship_type", "sponsor_organization", "amount", "is_active"}

ScholarshipType == {"academic_merit", "need_based", "research", "departmental"}

\* The ScholarshipCreate object parsed from a request body.  ScholarshipBase:
\* is_active has the default True, the other fields are required.
ScholarshipCreate(raw) == dict_update([is_active |-> Some(TRUE)], raw)

\* Request bodies of POST and PUT /scholarships that pass ScholarshipCreate.
ScholarshipCreateInputs ==
  << [name |-> Some("Dean"), scholarship_type |-> Some("academic_merit"),
                 sponsor_organization |-> Some(<<"A", "b">>), amount |-> Some(500000),
                 is_active |-> Some(TRUE)],
     [name |-> Some("Grant"), scholarship_type |-> Some("need_based"),
                 sponsor_organization |-> Some(<<"b">>), amount |-> Some(0)] >>

\* Request bodies of PATCH /scholarships/{id} that pass ScholarshipUpdate.
ScholarshipUpdateInputs ==
  << [f \in {} |-> None],
     [name |-> Some(""), is_active |-> Some(FALSE)],
     [sponsor_organization |-> Some(<<>>), amount |-> Some(0)],
     [amount |-> None] >>

ScholarshipValid(data) ==
  /\ \A f \in ScholarshipFields : f \in DOMAIN data /\ data[f] # None
  /\ data.scholarship_type[1] \in ScholarshipType

ScholarshipRead(data, uid, c, u) ==
  ReadObject(ScholarshipFields, dict_update([is_active |-> Some(TRUE)], data), uid, c, u)

create_scholarship(raw) ==
  \E d \in 0..1 :
    /\ Idle
    /\ UNCHANGED inflight
    /\ Created < MaxRecords
    /\ now + d <= MaxClock
    /\ LET scholarship == ScholarshipCreate(raw)
           scholarship_read ==
             ScholarshipRead(model_dump(scholarship), nextId, now, now + d)
       IN /\ scholarships' = Put(scholarships, scholarship_read.id, scholarship_read)
          /\ resp' = Response("create", "scholarship", 0, scholarship, 201, scholarship_read)
    /\ now' = now + d
    /\ nextId' = nextId + 1
    /\ UNCHANGED <<persons, addresses, tuitions, deleted>>

\* str.lower(), character by character
LowerChar(c) == CASE c = "A" -> "a" [] c = "B" -> "b" [] OTHER -> c

lower(s) == [i \in 1..Len(s) |-> LowerChar(s[i])]

\* Containment that does not find the empty string.
contains_nonempty(sub, s) ==
  /\ Len(sub) > 0
  /\ \E i \in 0..(Len(s) - Len(sub)) :
       \A j \in 1..Len(sub) : s[i + j] = sub[j]

\* sub in s, on str
contains(sub, s) ==
  \E i \in 0..(Len(s) - Len(sub)) :
    \A j \in 1..Len(sub) : s[i + j] = sub[j]

filter_scholarships(r0, q) ==
  LET r1 == IF q.scholarship_type # None
            THEN SelectSeq(r0, LAMBDA s : s.scholarship_type = q.scholarship_type) ELSE r0
      r2 == IF q.sponsor_organization # None
            THEN SelectSeq(r1, LAMBDA s : contains(lower(q.sponsor_organization[1]),
                                                   lower(s.sponsor_organization[1])))
            ELSE r1
      r3 == IF q.is_active # None
            THEN SelectSeq(r2, LAMBDA s : s.is_active = q.is_active) ELSE r2
  IN r3

list_scholarships(q) ==
    /\ Idle
    /\ UNCHANGED inflight
    /\ resp' = Response("list", "scholarship", 0, q, 200, filter_scholarships(Values(scholarships), q))
    /\ UNCHANGED <<stores, now, nextId, deleted>>

\* Query strings of GET /scholarships.
ScholarshipQueries ==
  << [scholarship_type |-> None, sponsor_organization |-> None, is_active |-> None],
     [scholarship_type |-> None, sponsor_organization |-> Some(<<"B">>), is_active |-> None],
     [scholarship_type |-> Some("need_based"), sponsor_organization |-> None,
                 is_active |-> Some(TRUE)],
     [scholarship_type |-> None, sponsor_organization |-> Some(<<"a", "B">>),
                 is_active |-> Some(FALSE)],
     [scholarship_type |-> None, sponsor_organization |-> Some(<<>>), is_active |-> None] >>

get_scholarship(scholarship_id) ==
    /\ Idle
    /\ UNCHANGED inflight
    /\ IF ~Has(scholarships, scholarship_id)
       THEN resp' = Response("get", "scholarship", scholarship_id, <<>>, 404, "Scholarship not found")
       ELSE resp' = Response("get", "scholarship", scholarship_id, <<>>, 200,
                             Get(scholarships, scholarship_id))
    /\ UNCHANGED <<stores, now, nextId, deleted>>

update_scholarship(scholarship_id, raw) ==
    /\ Idle
    /\ UNCHANGED inflight
    /\ IF ~Has(scholarships, scholarship_id)
       THEN /\ resp' = Response("update", "scholarship", scholarship_id, raw, 404, "Scholarship not found")
            /\ UNCHANGED scholarships
       ELSE LET update == UpdateObject(ScholarshipFields, raw)
                stored == update_stored(Get(scholarships, scholarship_id), update)
            IN IF ScholarshipValid(stored)
               THEN /\ scholarships' = Put(scholarships, scholarship_id,
                                           ScholarshipRead(stored, nextId, now, now))
                    /\ resp' = Response("update", "scholarship", scholarship_id, raw, 200,
                                        Get(scholarships', scholarship_id))
               ELSE /\ resp' = Response("update", "scholarship", scholarship_id, raw, 500,
                                        "ValidationError")
                    /\ UNCHANGED scholarships
    /\ UNCHANGED <<persons, addresses, tuitions, now, nextId, deleted>>

replace_scholarship(scholarship_id, raw) ==
    /\ Idle
    /\ UNCHANGED inflight
    /\ LET scholarship == ScholarshipCreate(raw)
       IN IF ~Has(scholarships, scholarship_id)
          THEN /\ resp' = Response("replace", "scholarship", scholarship_id, scholarship, 404,
                                   "Scholarship not found")
               /\ UNCHANGED scholarships
          ELSE LET original == Get(scholarships, scholarship_id)
                   scholarship_data == replace_data(original, scholarship, now)
               IN /\ scholarships' = Put(scholarships, scholarship_id,
                                         ScholarshipRead(scholarship_data, nextId, now, now))
                  /\ resp' = Response("replace", "scholarship", scholarship_id, scholarship, 200,
                                      Get(scholarships', scholarship_id))
    /\ UNCHANGED <<persons, addresses, tuitions, now, nextId, deleted>>

\* DELETE that answers success for an identifier that is not stored.
delete_scholarship_idempotent(scholarship_id) ==
    /\ Idle
    /\ UNCHANGED inflight
    /\ scholarships' = Del(scholarships, scholarship_id)
    /\ deleted' = IF Has(scholarships, scholarship_id)
                  THEN deleted \cup {<<"scholarship", scholarship_id>>} ELSE deleted
    /\ resp' = Response("delete", "scholarship", scholarship_id, <<>>, 200,
                        "Scholarship deleted successfully")
    /\ UNCHANGED <<persons, addresses, tuitions, now, nextId>>

delete_scholarship(scholarship_id) ==
    /\ Idle
    /\ UNCHANGED inflight
    /\ IF ~Has(scholarships, scholarship_id)
       THEN /\ resp' = Response("delete", "scholarship", scholarship_id, <<>>, 404,
                                "Scholarship not found")
            /\ UNCHANGED <<scholarships, deleted>>
       ELSE /\ scholarships' = Del(scholarships, scholarship_id)
            /\ deleted' = deleted \cup {<<"scholarship", scholarship_id>>}
            /\ resp' = Response("delete", "scholarship", scholarship_id, <<>>, 200,
                                "Scholarship deleted successfully")
    /\ UNCHANGED <<persons, addresses, tuitions, now, nextId>>

----------------------------------------------------------------------------
\* Address

AddressFields == {"street", "city", "state", "postal_code", "country"}

\* The domain fields of an address value.
AddressBase(street, city, country) ==
  [street |-> Some(street), city |-> Some(city), state |-> Some("NY"),
   postal_code |-> Some("10027"), country |-> Some(country)]

\* Request bodies of POST /addresses that pass AddressCreate, without the
\* identifier, which the caller gives too.
AddressCreateInputs ==
  << AddressBase("1 Main St", "A", "US"), AddressBase("", "B", "US") >>

\* The AddressCreate object parsed from a request body with identifier k.
AddressCreate(k, raw) == dict_update(raw, [id |-> k])

\* Request bodies of PATCH /addresses/{id} that pass AddressUpdate.
AddressUpdateInputs ==
  << [f \in {} |-> None],
     [street |-> Some(""), city |-> Some("B")],
     [country |-> None] >>

AddressValid(data) ==
  \A f \in AddressFields : f \in DOMAIN data /\ data[f] # None

AddressRead(data, uid, c, u) == ReadObject(AddressFields, data, uid, c, u)

\* POST /addresses without the check for an identifier already stored.
create_address_unchecked(k, raw) ==
  \E d \in 0..1 :
    /\ Idle
    /\ UNCHANGED inflight
    /\ Has(addresses, k) \/ Created < MaxRecords
    /\ now + d <= MaxClock
    /\ LET address == AddressCreate(k, raw)
       IN /\ addresses' = Put(addresses, address.id,
                              AddressRead(model_dump(address), nextId, now, now + d))
          /\ resp' = Response("create", "address", address.id, address, 201,
                              Get(addresses', address.id))
    /\ now' = now + d
    /\ UNCHANGED <<persons, tuitions, scholarships, nextId, deleted>>

create_address(k, raw) ==
  /\ Idle
  /\ UNCHANGED inflight
  /\ LET address == AddressCreate(k, raw)
     IN IF Has(addresses, address.id)
        THEN /\ resp' = Response("create", "address", address.id, address, 400,
                                 "Address with this ID already exists")
             /\ UNCHANGED <<addresses, now>>
        ELSE \E d \in 0..1 :
               /\ Created < MaxRecords
               /\ now + d <= MaxClock
               /\ addresses' = Put(addresses, address.id,
                                   AddressRead(model_dump(address), nextId, now, now + d))
               /\ resp' = Response("create", "address", address.id, address, 201,
                                   Get(addresses', address.id))
               /\ now' = now + d
  /\ UNCHANGED <<persons, tuitions, scholarships, nextId, deleted>>

filter_addresses(r0, q) ==
  LET r1 == IF q.street # None
            THEN SelectSeq(r0, LAMBDA a : a.street = q.street) ELSE r0
      r2 == IF q.city # None
            THEN SelectSeq(r1, LAMBDA a : a.city = q.city) ELSE r1
      r3 == IF q.state # None
            THEN SelectSeq(r2, LAMBDA a : a.state = q.state) ELSE r2
      r4 == IF q.postal_code # None
            THEN SelectSeq(r3, LAMBDA a : a.postal_code = q.postal_code) ELSE r3
      r5 == IF q.country # None
            THEN SelectSeq(r4, LAMBDA a : a.country = q.country) ELSE r4
  IN r5

list_addresses(q) ==
    /\ Idle
    /\ UNCHANGED inflight
    /\ resp' = Response("list", "address", 0, q, 200, filter_addresses(Values(addresses), q))
    /\ UNCHANGED <<stores, now, nextId, deleted>>

NoAddressQuery ==
  [street |-> None, city |-> None, state |-> None, postal_code |-> None, country |-> None]

\* Query strings of GET /addresses.
AddressQueries ==
  << NoAddressQuery,
     [NoAddressQuery EXCEPT !.city = Some("A")],
     [NoAddressQuery EXCEPT !.city = Some("B"), !.country = Some("US"),
                                       !.state = Some("NY")],
     [NoAddressQuery EXCEPT !.street = Some(""), !.postal_code = Some("10027")] >>

get_address(address_id) ==
    /\ Idle
    /\ UNCHANGED inflight
    /\ IF ~Has(addresses, address_id)
       THEN resp' = Response("get", "address", address_id, <<>>, 404, "Address not found")
       ELSE resp' = Response("get", "address", address_id, <<>>, 200, Get(addresses, address_id))
    /\ UNCHANGED <<stores, now, nextId, deleted>>

update_address(address_id, raw) ==
    /\ Idle
    /\ UNCHANGED inflight
    /\ IF ~Has(addresses, address_id)
       THEN /\ resp' = Response("update", "address", address_id, raw, 404, "Address not found")
            /\ UNCHANGED addresses
       ELSE LET update == UpdateObject(AddressFields, raw)
                stored == update_stored(Get(addresses, address_id), update)
            IN IF AddressValid(stored)
               THEN /\ addresses' = Put(addresses, address_id, AddressRead(stored, nextId, now, now))
                    /\ resp' = Response("update", "address", address_id, raw, 200,
                                        Get(addresses', address_id))
               ELSE /\ resp' = Response("update", "address", address_id, raw, 500, "ValidationError")
                    /\ UNCHANGED addresses
    /\ UNCHANGED <<persons, tuitions, scholarships, now, nextId, deleted>>

----------------------------------------------------------------------------
\* Person

PersonFields ==
  {"uni", "first_name", "last_name", "email", "phone", "birth_date", "addresses"}

\* Request bodies of POST /persons that pass PersonCreate.
PersonCreateInputs ==
  << [uni |-> Some("al1815"), first_name |-> Some("Ada"),
                 last_name |-> Some("Lovelace"), email |-> Some("ada@example.com"),
                 phone |-> Some("+1-212-555-0199"), birth_date |-> Some(<<1815, 12, 10>>),
                 addresses |-> Some(<<AddressBase("1 Main St", "A", "US"),
                                      AddressBase("2 High St", "B", "UK")>>)],
     [uni |-> Some("gh1906"), first_name |-> Some("Grace"),
                 last_name |-> Some("Hopper"), email |-> Some("grace@example.com"),
                 phone |-> Some("+1-212-555-0100"), birth_date |-> Some(<<1906, 12, 9>>),
                 addresses |-> Some(<<>>)] >>

\* Request bodies of PATCH /persons/{id} that pass PersonUpdate.
PersonUpdateInputs ==
  << [f \in {} |-> None],
     [first_name |-> Some("Ada"),
                 addresses |-> Some(<<AddressBase("3 Low St", "C", "US")>>)],
     [uni |-> None] >>

PersonValid(data) ==
  \A f \in PersonFields : f \in DOMAIN data /\ data[f] # None

PersonRead(data, uid, c, u) == ReadObject(PersonFields, data, uid, c, u)

create_person(person) ==
  \E d \in 0..1 :
    /\ Idle
    /\ UNCHANGED inflight
    /\ Created < MaxRecords
    /\ now + d <= MaxClock
    /\ LET person_read == PersonRead(model_dump(person), nextId, now, now + d)
       IN /\ persons' = Put(persons, person_read.id, person_read)
          /\ resp' = Response("create", "person", 0, person, 201, person_read)
    /\ now' = now + d
    /\ nextId' = nextId + 1
    /\ UNCHANGED <<addresses, tuitions, scholarships, deleted>>

Digit(n) ==
  CASE n = 0 -> "0" [] n = 1 -> "1" [] n = 2 -> "2" [] n = 3 -> "3" [] n = 4 -> "4"
    [] n = 5 -> "5" [] n = 6 -> "6" [] n = 7 -> "7" [] n = 8 -> "8" [] n = 9 -> "9"

Pad2(n) == Digit(n \div 10) \o Digit(n % 10)

\* str() of a date: YYYY-MM-DD
str_date(dt) ==
  Pad2(dt[1] \div 100) \o Pad2(dt[1] % 100) \o "-" \o Pad2(dt[2]) \o "-" \o Pad2(dt[3])

\* The match that looks at the first address only.
any_address_first(p, field, value) ==
  Len(p.addresses[1]) > 0 /\ p.addresses[1][1][field] = value

\* any(pred(addr) for addr in p.addresses), pred an equality on one field
any_address(p, field, value) ==
  \E i \in 1..Len(p.addresses[1]) : p.addresses[1][i][field] = value

filter_persons(r0, q) ==
  LET r1 == IF q.uni # None
            THEN SelectSeq(r0, LAMBDA p : p.uni = q.uni) ELSE r0
      r2 == IF q.first_name # None
            THEN SelectSeq(r1, LAMBDA p : p.first_name = q.first_name) ELSE r1
      r3 == IF q.last_name # None
            THEN SelectSeq(r2, LAMBDA p : p.last_name = q.last_name) ELSE r2
      r4 == IF q.email # None
            THEN SelectSeq(r3, LAMBDA p : p.email = q.email) ELSE r3
      r5 == IF q.phone # None
            THEN SelectSeq(r4, LAMBDA p : p.phone = q.phone) ELSE r4
      r6 == IF q.birth_date # None
            THEN SelectSeq(r5, LAMBDA p : Some(str_date(p.birth_date[1])) = q.birth_date)
            ELSE r5
      r7 == IF q.city # None
            THEN SelectSeq(r6, LAMBDA p : any_address(p, "city", q.city)) ELSE r6
      r8 == IF q.country # None
            THEN SelectSeq(r7, LAMBDA p : any_address(p, "country", q.country)) ELSE r7
  IN r8

list_persons(q) ==
    /\ Idle
    /\ UNCHANGED inflight
    /\ resp' = Response("list", "person", 0, q, 200, filter_persons(Values(persons), q))
    /\ UNCHANGED <<stores, now, nextId, deleted>>

NoPersonQuery ==
  [uni |-> None, first_name |-> None, last_name |-> None, email |-> None, phone |-> None,
   birth_date |-> None, city |-> None, country |-> None]

\* Query strings of GET /persons.
PersonQueries ==
  << NoPersonQuery,
     [NoPersonQuery EXCEPT !.city = Some("A")],
     [NoPersonQuery EXCEPT !.city = Some("B")],
     [NoPersonQuery EXCEPT !.city = Some("C")],
     [NoPersonQuery EXCEPT !.country = Some("UK"), !.first_name = Some("Ada"),
                                      !.birth_date = Some("1815-12-10")],
     [NoPersonQuery EXCEPT !.country = Some("US"), !.city = Some("B")],
     [NoPersonQuery EXCEPT !.country = Some("UK")],
     [NoPersonQuery EXCEPT !.city = Some(""), !.birth_date = Some("")],
     [NoPersonQuery EXCEPT !.uni = Some("gh1906"), !.last_name = Some("Hopper"),
                                      !.email = Some("grace@example.com"),
                                      !.phone = Some("+1-212-555-0100")] >>

get_person(person_id) ==
    /\ Idle
    /\ UNCHANGED inflight
    /\ IF ~Has(persons, person_id)
       THEN resp' = Response("get", "person", person_id, <<>>, 404, "Person not found")
       ELSE resp' = Response("get", "person", person_id, <<>>, 200, Get(persons, person_id))
    /\ UNCHANGED <<stores, now, nextId, deleted>>

update_person(person_id, raw) ==
    /\ Idle
    /\ UNCHANGED inflight
    /\ IF ~Has(persons, person_id)
       THEN /\ resp' = Response("update", "person", person_id, raw, 404, "Person not found")
            /\ UNCHANGED persons
       ELSE LET update == UpdateObject(PersonFields, raw)
                stored == update_stored(Get(persons, person_id), update)
            IN IF PersonValid(stored)
               THEN /\ persons' = Put(persons, person_id, PersonRead(stored, nextId, now, now))
                    /\ resp' = Response("update", "person", person_id, raw, 200,
                                        Get(persons', person_id))
               ELSE /\ resp' = Response("update", "person", person_id, raw, 500, "ValidationError")
                    /\ UNCHANGED persons
    /\ UNCHANGED <<addresses, tuitions, scholarships, now, nextId, deleted>>

----------------------------------------------------------------------------
Next ==
  \/ Tick
  \/ send_response
  \/ \E i \in 1..Len(TuitionCreateInputs) : create_tuition(TuitionCreateInputs[i])
  \/ \E i \in 1..Len(TuitionQueries) : list_tuitions(TuitionQueries[i])
  \/ \E k \in Ids : get_tuition(k)
  \/ \E k \in Ids, i \in 1..Len(TuitionUpdateInputs) : update_tuition(k, TuitionUpdateInputs[i])
  \/ \E k \in Ids, i \in 1..Len(TuitionCreateInputs) : replace_tuition(k, TuitionCreateInputs[i])
  \/ \E k \in Ids : delete_tuition(k)
  \/ \E i \in 1..Len(ScholarshipCreateInputs) :
       create_scholarship(ScholarshipCreateInputs[i])
  \/ \E i \in 1..Len(ScholarshipQueries) : list_scholarships(ScholarshipQueries[i])
  \/ \E k \in Ids : get_scholarship(k)
  \/ \E k \in Ids, i \in 1..Len(ScholarshipUpdateInputs) :
       update_scholarship(k, ScholarshipUpdateInputs[i])
  \/ \E k \in Ids, i \in 1..Len(ScholarshipCreateInputs) :
       replace_scholarship(k, ScholarshipCreateInputs[i])
  \/ \E k \in Ids : delete_scholarship(k)
  \/ \E i \in 1..Len(PersonCreateInputs) : create_person(PersonCreateInputs[i])
  \/ \E i \in 1..Len(PersonQueries) : list_persons(PersonQueries[i])
  \/ \E k \in Ids : get_person(k)
  \/ \E k \in Ids, i \in 1..Len(PersonUpdateInputs) : update_person(k, PersonUpdateInputs[i])
  \/ \E k \in Ids, i \in 1..Len(AddressCreateInputs) : create_address(k, AddressCreateInputs[i])
  \/ \E i \in 1..Len(AddressQueries) : list_addresses(AddressQueries[i])
  \/ \E k \in Ids : get_address(k)
  \/ \E k \in Ids, i \in 1..Len(AddressUpdateInputs) : update_address(k, AddressUpdateInputs[i])

Spec == Init /\ [][Next]_vars

----------------------------------------------------------------------------
\* The tuition handlers run by worker threads with no lock.  The handlers
\* are plain functions (def), which the host runs in a pool of threads; a
\* thread can be preempted between any two statements, and each access to
\* the dict (in, [], []=, del) is one step.  inflight[t].pc is the next
\* access of thread t to the store; inflight[t].local is what the thread
\* has read from it.  resp is the last response a thread has returned.
\* The clock stands still here.

\* The thread returns: the response is recorded and the thread is free.
Returns(t, status, body) ==
  /\ resp' = Response(inflight[t].op, "tuition", inflight[t].id, inflight[t].payload,
                      status, body)
  /\ inflight' = [inflight EXCEPT ![t] = NoRequest]

\* The thread goes on to its next access of the store.
Goes(t, pc, local) ==
  /\ inflight' = [inflight EXCEPT ![t].pc = pc, ![t].local = local]
  /\ UNCHANGED resp

\* Requests on one tuition: PATCH, PUT and DELETE /tuitions/{tuition_id}.
TuitionRequests ==
  {<<"update", TuitionUpdateInputs[2]>>, <<"replace", TuitionCreateInputs[2]>>,
   <<"delete", <<>>>>}

\* A free thread is given a request.
dispatch(t, op, tuition_id, payload) ==
  /\ inflight[t].pc = "idle"
  /\ inflight' = [inflight EXCEPT ![t] = [op |-> op, id |-> tuition_id, payload |-> payload,
                                          pc |-> "check", local |-> <<>>]]
  /\ UNCHANGED <<stores, now, nextId, deleted, resp>>

\* POST /tuitions: the only access to the store is the assignment.
create_tuition_thread(t, tuition) ==
  /\ inflight[t].pc = "idle"
  /\ Created < MaxRecords
  /\ LET tuition_read == TuitionRead(model_dump(tuition), nextId, now, now)
     IN /\ tuitions' = Put(tuitions, tuition_read.id, tuition_read)
        /\ resp' = Response("create", "tuition", 0, tuition, 201, tuition_read)
  /\ nextId' = nextId + 1
  /\ UNCHANGED <<persons, addresses, scholarships, now, deleted, inflight>>

\* if tuition_id not in tuitions: raise HTTPException(404)
tuition_check(t) ==
  /\ inflight[t].pc = "check"
  /\ IF ~Has(tuitions, inflight[t].id)
     THEN Returns(t, 404, "Tuition record not found")
     ELSE Goes(t, IF inflight[t].op = "delete" THEN "del" ELSE "read", <<>>)
  /\ UNCHANGED <<stores, now, nextId, deleted>>

\* stored = tuitions[tuition_id].model_dump()    (update_tuition)
\* original = tuitions[tuition_id]               (replace_tuition)
\* A key that is no longer there raises KeyError, answered with 500.
tuition_read(t) ==
  /\ inflight[t].pc = "read"
  /\ IF ~Has(tuitions, inflight[t].id)
     THEN Returns(t, 500, "KeyError")
     ELSE Goes(t, "write", Get(tuitions, inflight[t].id))
  /\ UNCHANGED <<stores, now, nextId, deleted>>

\* tuitions[tuition_id] = TuitionRead(**stored)  of update_tuition
update_tuition_write(t) ==
  /\ inflight[t].pc = "write" /\ inflight[t].op = "update"
  /\ LET update == UpdateObject(TuitionFields, inflight[t].payload)
         stored == update_stored(inflight[t].local, update)
     IN IF TuitionValid(stored)
        THEN /\ tuitions' = Put(tuitions, inflight[t].id, TuitionRead(stored, nextId, now, now))
             /\ Goes(t, "return", <<>>)
        ELSE /\ Returns(t, 500, "ValidationError")
             /\ UNCHANGED tuitions
  /\ UNCHANGED <<persons, addresses, scholarships, now, nextId, deleted>>

\* tuitions[tuition_id] = TuitionRead(**tuition_data)  of replace_tuition
replace_tuition_write(t) ==
  /\ inflight[t].pc = "write" /\ inflight[t].op = "replace"
  /\ LET tuition_data == replace_data(inflight[t].local, inflight[t].payload, now)
     IN tuitions' = Put(tuitions, inflight[t].id, TuitionRead(tuition_data, nextId, now, now))
  /\ Goes(t, "return", <<>>)
  /\ UNCHANGED <<persons, addresses, scholarships, now, nextId, deleted>>

\* return tuitions[tuition_id]
tuition_return(t) ==
  /\ inflight[t].pc = "return"
  /\ IF ~Has(tuitions, inflight[t].id)
     THEN Returns(t, 500, "KeyError")
     ELSE Returns(t, 200, Get(tuitions, inflight[t].id))
  /\ UNCHANGED <<stores, now, nextId, deleted>>

\* tuitions.pop(tuition_id, None): a key that is no longer there is
\* passed over.
delete_tuition_pop(t) ==
  /\ inflight[t].pc = "del"
  /\ tuitions' = Del(tuitions, inflight[t].id)
  /\ deleted' = deleted \cup {<<"tuition", inflight[t].id>>}
  /\ Returns(t, 200, "Tuition record deleted successfully")
  /\ UNCHANGED <<persons, addresses, scholarships, now, nextId>>

\* del tuitions[tuition_id]; return {"message": ...}
delete_tuition_del(t) ==
  /\ inflight[t].pc = "del"
  /\ IF ~Has(tuitions, inflight[t].id)
     THEN /\ Returns(t, 500, "KeyError")
          /\ UNCHANGED <<tuitions, deleted>>
     ELSE /\ tuitions' = Del(tuitions, inflight[t].id)
          /\ deleted' = deleted \cup {<<"tuition", inflight[t].id>>}
          /\ Returns(t, 200, "Tuition record deleted successfully")
  /\ UNCHANGED <<persons, addresses, scholarships, now, nextId>>

NextConc ==
  \/ \E t \in Threads, k \in Ids : \E r \in TuitionRequests : dispatch(t, r[1], k, r[2])
  \/ \E t \in Threads : create_tuition_thread(t, TuitionCreateInputs[1])
  \/ \E t \in Threads : tuition_check(t)
  \/ \E t \in Threads : tuition_read(t)
  \/ \E t \in Threads : update_tuition_write(t)
  \/ \E t \in Threads : replace_tuition_write(t)
  \/ \E t \in Threads : tuition_return(t)
  \/ \E t \in Threads : delete_tuition_del(t)

SpecConc == Init /\ [][NextConc]_vars

----------------------------------------------------------------------------
\* Vocabulary of the properties.

Kinds == {"person", "address", "tuition", "scholarship"}

Store(kind) ==
  CASE kind = "person" -> persons
    [] kind = "address" -> addresses
    [] kind = "tuition" -> tuitions
    [] kind = "scholarship" -> scholarships

Fields(kind) ==
  CASE kind = "person" -> PersonFields
    [] kind = "address" -> AddressFields
    [] kind = "tuition" -> TuitionFields
    [] kind = "scholarship" -> ScholarshipFields

\* This step is a handler handling a request: resp' is its response.
Handled == resp = NoResponse /\ resp' # NoResponse

\* This step handles request op on the record of the kind stored under resp'.id.
HandledOn(op, kind) ==
  Handled /\ resp'.op = op /\ resp'.kind = kind /\ Has(Store(kind), resp'.id)

\* The merge of C1 on this step: every field the payload sets has the
\* payload's value, every other field the value it had, and the record
\* returned is the record stored.
Merged(kind) ==
  LET raw == resp'.payload
      old == Get(Store(kind), resp'.id)
      new == Get(Store(kind)', resp'.id)
  IN /\ \A f \in Fields(kind) : new[f] = IF f \in DOMAIN raw THEN raw[f] ELSE old[f]
     /\ resp'.body = new

C2_UpdateRefreshesUpdatedAt ==
  \A kind \in Kinds :
    (resp.op = "update" /\ resp.kind = kind /\ resp.status = 200) =>
      /\ resp.body.updated_at = now
      /\ Get(Store(kind), resp.id).updated_at = now

\* C3: every record of every store has the id it is stored under, and the
\* record a successful PATCH or PUT on k returns and stores has id k.
C3_IdentifierImmutable ==
  /\ \A kind \in Kinds :
       /\ \A i \in 1..Len(Store(kind)) : Store(kind)[i][2].id = Store(kind)[i][1]
       /\ Cardinality(Keys(Store(kind))) = Len(Store(kind))
  /\ \A kind \in Kinds :
       (resp.op \in {"update", "replace"} /\ resp.kind = kind /\ resp.status = 200) =>
         /\ resp.body.id = resp.id
         /\ Has(Store(kind), resp.id)
         /\ Get(Store(kind), resp.id).id = resp.id

\* A PUT on the second identifier was applied while another record is stored.
C3_Witness ==
  /\ resp.op = "replace" /\ resp.status = 200 /\ resp.id = 2
  /\ Len(Store(resp.kind)) = 2
  /\ Get(Store(resp.kind), 2).id = 2

\* C4: a PUT of an existing tuition or scholarship succeeds, keeps
\* created_at, sets updated_at to the current time, which is not before the
\* old updated_at, and sets every domain field to the payload's value.
C4_ReplacePreservesProvenance ==
  [][\A kind \in {"tuition", "scholarship"} : HandledOn("replace", kind) =>
       LET old == Get(Store(kind), resp'.id)
           new == Get(Store(kind)', resp'.id)
       IN /\ resp'.status = 200
          /\ new.created_at = old.created_at
          /\ new.updated_at >= old.updated_at
          /\ new.updated_at = now
          /\ \A f \in Fields(kind) : new[f] = resp'.payload[f]
          /\ resp'.body = new]_vars

\* A scholarship was replaced, later than it was created, by a payload that
\* leaves is_active out: the record has the payload's name and the default.
C4_Witness ==
  /\ resp.op = "replace" /\ resp.kind = "scholarship" /\ resp.status = 200
  /\ Get(scholarships, resp.id).created_at < Get(scholarships, resp.id).updated_at
  /\ Get(scholarships, resp.id).updated_at = now
  /\ Get(scholarships, resp.id).name = Some("Grant")
  /\ Get(scholarships, resp.id).is_active = Some(TRUE)

\* The records of a store that a listing returned.
Listed(r) == \E j \in 1..Len(resp.body) : resp.body[j] = r

\* The query supplies parameter f.
Supplied(q, f) == q[f] # None

\* Record r satisfies every predicate the query q of its kind supplies.
Satisfies(kind, q, r) ==
  CASE kind = "tuition" ->
         \A f \in DOMAIN q : Supplied(q, f) => r[f] = q[f]
    [] kind = "address" ->
         \A f \in DOMAIN q : Supplied(q, f) => r[f] = q[f]
    [] kind = "scholarship" ->
         /\ Supplied(q, "scholarship_type") => r.scholarship_type = q.scholarship_type
         /\ Supplied(q, "is_active") => r.is_active = q.is_active
         /\ Supplied(q, "sponsor_organization") =>
              contains(lower(q.sponsor_organization[1]), lower(r.sponsor_organization[1]))
    [] kind = "person" ->
         /\ \A f \in {"uni", "first_name", "last_name", "email", "phone"} :
              Supplied(q, f) => r[f] = q[f]
         /\ Supplied(q, "birth_date") => str_date(r.birth_date[1]) = q.birth_date[1]
         /\ Supplied(q, "city") =>
              \E i \in 1..Len(r.addresses[1]) : r.addresses[1][i].city = q.city
         /\ Supplied(q, "country") =>
              \E i \in 1..Len(r.addresses[1]) : r.addresses[1][i].country = q.country

\* C5: a listing of any kind returns exactly the stored records that
\* satisfy every supplied predicate, and the whole store when none is
\* supplied.
C5_FilterConjunction ==
  \A kind \in Kinds :
    (resp.op = "list" /\ resp.kind = kind) =>
      LET all == Values(Store(kind))
          q == resp.payload
      IN /\ \A i \in 1..Len(all) : Listed(all[i]) <=> Satisfies(kind, q, all[i])
         /\ \A j \in 1..Len(resp.body) : \E i \in 1..Len(all) : all[i] = resp.body[j]
         /\ (\A f \in DOMAIN q : ~Supplied(q, f)) => resp.body = all

\* Two tuitions of the same year are stored and a listing by semester and
\* year returned one of them.
C5_Witness ==
  /\ resp.op = "list" /\ resp.kind = "tuition"
  /\ Supplied(resp.payload, "semester") /\ Supplied(resp.payload, "year")
  /\ Len(tuitions) = 2 /\ Len(resp.body) = 1
  /\ \A i \in 1..2 : tuitions[i][2].year = resp.payload.year

\* The cities and the countries of the addresses of a person.
Cities(p) == {p.addresses[1][i].city : i \in 1..Len(p.addresses[1])}

Countries(p) == {p.addresses[1][i].country : i \in 1..Len(p.addresses[1])}

\* The query supplies parameter f and no other.
SuppliedOnly(q, f) == \A g \in DOMAIN q : Supplied(q, g) <=> g = f

\* C6: a listed person has an address in the city (country) asked for; when
\* city (country) is the only parameter, the persons listed are exactly
\* those with such an address; a person without addresses is not listed
\* under a city or country filter.
C6_NestedExistential ==
  (resp.op = "list" /\ resp.kind = "person") =>
    LET q == resp.payload IN
    \A i \in 1..Len(persons) :
      LET p == persons[i][2] IN
      /\ (Supplied(q, "city") /\ Listed(p)) => q.city \in Cities(p)
      /\ (Supplied(q, "country") /\ Listed(p)) => q.country \in Countries(p)
      /\ SuppliedOnly(q, "city") => (Listed(p) <=> q.city \in Cities(p))
      /\ SuppliedOnly(q, "country") => (Listed(p) <=> q.country \in Countries(p))
      /\ (Len(p.addresses[1]) = 0 /\ (Supplied(q, "city") \/ Supplied(q, "country")))
           => ~Listed(p)

\* A person with addresses in A and B and a person without addresses are
\* stored; a listing by city B alone returned the first and not the second.
C6_Witness ==
  /\ resp.op = "list" /\ resp.kind = "person"
  /\ SuppliedOnly(resp.payload, "city") /\ resp.payload.city = Some("B")
  /\ \E i, j \in 1..Len(persons) :
       /\ Cities(persons[i][2]) = {Some("A"), Some("B")}
       /\ Listed(persons[i][2])
       /\ Cities(persons[j][2]) = {}
       /\ ~Listed(persons[j][2])

Deletable == {"tuition", "scholarship"}

\* C7: once a tuition or scholarship identifier has been deleted, no record
\* is stored under it again, and every later get, PATCH, PUT and DELETE on it
\* answers 404.
C7_DeleteTerminal ==
  [][\A kind \in Deletable : \A k \in Ids :
       <<kind, k>> \in deleted =>
         /\ ~Has(Store(kind)', k)
         /\ (Handled /\ resp'.kind = kind /\ resp'.id = k
               /\ resp'.op \in {"get", "update", "replace", "delete"})
              => resp'.status = 404]_vars

\* A second DELETE of a deleted tuition was answered 404.
C7_Witness ==
  /\ resp.op = "delete" /\ resp.kind = "tuition" /\ resp.status = 404
  /\ <<"tuition", resp.id>> \in deleted
  /\ ~Has(tuitions, resp.id)

\* C8: get, PATCH, PUT and DELETE on an identifier that is not in the store
\* of its kind answer 404 and change no store; get on a stored identifier
\* answers the stored record and changes no store.
C8_NotFound ==
  [][\A kind \in Kinds :
       (Handled /\ resp'.kind = kind /\ resp'.op \in {"get", "update", "replace", "delete"}) =>
         /\ ~Has(Store(kind), resp'.id) => (resp'.status = 404 /\ UNCHANGED stores)
         /\ (resp'.op = "get" /\ Has(Store(kind), resp'.id)) =>
              /\ resp'.status = 200
              /\ resp'.body = Get(Store(kind), resp'.id)
              /\ UNCHANGED stores]_vars

\* A DELETE of a scholarship identifier that is not stored was answered 404
\* while a tuition is stored.
C8_Witness ==
  /\ resp.op = "delete" /\ resp.kind = "scholarship" /\ resp.status = 404
  /\ ~Has(scholarships, resp.id)
  /\ Len(tuitions) = 1

\* C9: POST /addresses with a stored identifier answers 400 and changes no
\* store; POST of a person, tuition or scholarship answers 201, stores the
\* record under an identifier that was not in the store, and leaves every
\* record that was in the store as it was.
C9_CreateConflict ==
  [][(Handled /\ resp'.op = "create") =>
       /\ (resp'.kind = "address" /\ Has(addresses, resp'.id)) =>
            (resp'.status = 400 /\ UNCHANGED stores)
       /\ \A kind \in Kinds \ {"address"} :
            resp'.kind = kind =>
              /\ resp'.status = 201
              /\ ~Has(Store(kind), resp'.body.id)
              /\ Has(Store(kind)', resp'.body.id)
              /\ \A k \in Keys(Store(kind)) :
                   Has(Store(kind)', k) /\ Get(Store(kind)', k) = Get(Store(kind), k)]_vars

\* POST /addresses with the identifier of a stored address was answered 400.
C9_Witness ==
  /\ resp.op = "create" /\ resp.kind = "address" /\ resp.status = 400
  /\ Has(addresses, resp.id)
  /\ Get(addresses, resp.id).city # resp.payload.city

\* C10: every stored record has updated_at >= created_at, and the
\* created_at of a record that stays stored does not change.
C10_Timestamps ==
  [][\A kind \in Kinds :
       /\ \A i \in 1..Len(Store(kind)') :
            Store(kind)'[i][2].updated_at >= Store(kind)'[i][2].created_at
       /\ \A k \in Keys(Store(kind)) \cap Keys(Store(kind)') :
            Get(Store(kind)', k).created_at = Get(Store(kind), k).created_at]_vars

\* A tuition created with updated_at after created_at was replaced later.
C10_Witness ==
  /\ resp.op = "replace" /\ resp.kind = "tuition" /\ resp.status = 200
  /\ resp.body.created_at = 0 /\ resp.body.updated_at = MaxClock
  /\ \E i \in 1..Len(scholarships) :
       scholarships[i][2].created_at < scholarships[i][2].updated_at

\* C11: every stored tuition and scholarship has a value other than null
\* in every domain field, and a PATCH of a stored record whose payload sets
\* a field to null does not succeed and changes no store.
C11_NoPartialRecord ==
  [][\A kind \in Deletable :
       /\ \A i \in 1..Len(Store(kind)') : \A f \in Fields(kind) :
            Store(kind)'[i][2][f] # None
       /\ (HandledOn("update", kind) /\ \E f \in DOMAIN resp'.payload : resp'.payload[f] = None)
            => (resp'.status # 200 /\ UNCHANGED stores)]_vars

\* PATCH {student_uni: null} of a stored tuition was refused and the record
\* still has its student_uni.
C11_Witness ==
  /\ resp.op = "update" /\ resp.kind = "tuition" /\ resp.status = 500
  /\ DOMAIN resp.payload = {"student_uni"} /\ resp.payload.student_uni = None
  /\ Get(tuitions, resp.id).student_uni = Some("vv2418")

\* The str parameters of a listing that are compared for equality.
EqualityParams(kind) ==
  CASE kind = "tuition" -> {"student_uni", "tuition_type", "semester"}
    [] kind = "scholarship" -> {"scholarship_type"}
    [] kind = "address" -> AddressFields
    [] kind = "person" -> {"uni", "first_name", "last_name", "email", "phone"}

\* Under a parameter compared for equality (or, for a person, matched on
\* the addresses or on the date of birth) that is supplied as the empty
\* string, the records listed are records whose field is the empty string.
EmptyMatchesEmpty ==
  \A kind \in Kinds :
    (resp.op = "list" /\ resp.kind = kind) =>
      /\ \A f \in EqualityParams(kind) :
           resp.payload[f] = Some("") =>
             \A j \in 1..Len(resp.body) : resp.body[j][f] = Some("")
      /\ kind = "person" =>
           \A j \in 1..Len(resp.body) :
             /\ resp.payload.city = Some("") => Some("") \in Cities(resp.body[j])
             /\ resp.payload.country = Some("") => Some("") \in Countries(resp.body[j])
             /\ resp.payload.birth_date = Some("") =>
                  str_date(resp.body[j].birth_date[1]) = ""

\* C12 as stated: under every filter parameter supplied as the empty string,
\* sponsor_organization included, only records whose field is the empty
\* string are listed.
C12_EmptyStringFilter ==
  /\ EmptyMatchesEmpty
  /\ (resp.op = "list" /\ resp.kind = "scholarship"
        /\ resp.payload.sponsor_organization = Some(<<>>)) =>
       \A j \in 1..Len(resp.body) : resp.body[j].sponsor_organization = Some(<<>>)

\* C12 as amended: as stated for every parameter but sponsor_organization;
\* sponsor_organization supplied as the empty string lists what the same
\* query without sponsor_organization lists.
C12_EmptyStringFilterButSponsor ==
  /\ EmptyMatchesEmpty
  /\ (resp.op = "list" /\ resp.kind = "scholarship"
        /\ resp.payload.sponsor_organization = Some(<<>>)) =>
       \A i \in 1..Len(scholarships) :
         Listed(scholarships[i][2]) <=>
           Satisfies("scholarship", [resp.payload EXCEPT !.sponsor_organization = None],
                     scholarships[i][2])

\* A listing of scholarships by sponsor_organization = "" alone returned the
\* whole store, which holds a scholarship with a sponsor.
C12_Witness ==
  /\ resp.op = "list" /\ resp.kind = "scholarship"
  /\ SuppliedOnly(resp.payload, "sponsor_organization")
  /\ resp.payload.sponsor_organization = Some(<<>>)
  /\ Len(scholarships) = 2 /\ resp.body = Values(scholarships)
  /\ \E i \in 1..2 : scholarships[i][2].sponsor_organization = Some(<<"A", "b">>)

\* C13 as stated, with handlers run by threads with no lock: an identifier
\* that a DELETE has removed is not in the store, and every response is a
\* success or NotFound.
C13_ConcurrentDeleteTerminal ==
  /\ \A k \in Ids : <<"tuition", k>> \in deleted => ~Has(tuitions, k)
  /\ resp # NoResponse => resp.status \in {200, 201, 404}

\* Thread t takes a step of its handler.
Steps(t) == inflight[t].pc # "idle" /\ inflight'[t] # inflight[t]

\* C13 as amended, with handlers run by threads with no lock:
\*  - a request whose existence check finds no record under its identifier
\*    is answered NotFound and changes nothing;
\*  - a del that finds the record removes it and is answered 200; a del
\*    after which the record is already gone is answered 500 (KeyError);
\*  - a record comes back under a deleted identifier only through the write
\*    of a PATCH or PUT on it that was in flight;
\*  - a response other than success and NotFound is a 500 of a request
\*    whose record was gone when it got to it.
C13_ConcurrentDeleteRaces ==
  [][/\ \A t \in Threads :
          /\ (Steps(t) /\ inflight[t].pc = "check" /\ ~Has(tuitions, inflight[t].id))
               => /\ inflight'[t] = NoRequest
                  /\ resp'.status = 404 /\ resp'.id = inflight[t].id
                  /\ UNCHANGED <<stores, deleted>>
          /\ (Steps(t) /\ inflight[t].pc = "del")
               => /\ inflight'[t] = NoRequest
                  /\ resp'.op = "delete" /\ resp'.id = inflight[t].id
                  /\ ~Has(tuitions', inflight[t].id)
                  /\ resp'.status = IF Has(tuitions, inflight[t].id) THEN 200 ELSE 500
          /\ (Steps(t) /\ inflight'[t] = NoRequest)
               => /\ resp'.status \in {200, 404, 500}
                  /\ resp'.status = 500 => ~Has(tuitions, inflight[t].id)
     /\ \A k \in Ids :
          (<<"tuition", k>> \in deleted /\ ~Has(tuitions, k) /\ Has(tuitions', k))
            => \E t \in Threads :
                 /\ inflight[t].op \in {"update", "replace"} /\ inflight[t].id = k
                 /\ inflight[t].pc = "write" /\ inflight'[t].pc = "return"]_vars

\* A PATCH that read the record before a DELETE removed it has written it
\* back and has returned it: the deleted identifier is in the store again.
C13_Witness ==
  /\ \E k \in Ids :
       /\ <<"tuition", k>> \in deleted /\ Has(tuitions, k)
       /\ resp.op = "update" /\ resp.id = k /\ resp.status = 200
  /\ \A t \in Threads : inflight[t] = NoRequest

====
